---- MODULE Spec2Model ----
(***************************************************************************)
(* soop-chat-translator: the content script's bounded-concurrency          *)
(* translation queue (translationQueue / inFlightCount /                   *)
(* currentMaxConcurrent), the settings store it listens to, and the        *)
(* background service worker's message handler with its in-memory          *)
(* translation cache.                                                      *)
(*                                                                         *)
(* One action is one event-loop task: a handler runs from the event that   *)
(* starts it up to its next await (or its end), microtasks included.       *)
(***************************************************************************)
EXTENDS Integers, Sequences, FiniteSets, TLC

\* ---------------------------------------------------------------- bounds
NumMsgs == 4        \* chat message containers on the page
MaxJobs == 4        \* jobs enqueued in one run of the content script alone
MaxReqs == 2        \* jobs enqueued in one run of content script plus worker
MaxLimit == 4       \* largest maxConcurrentRequests value written to storage
LiveJobs == 3       \* jobs enqueued in a run checked for progress
LiveLimit == 2      \* largest maxConcurrentRequests written in such a run
MAX_CACHE_SIZE == 3 \* the worker's MAX_CACHE_SIZE, scaled down from 500
MaxWrap == 3        \* pieces before, and pieces after, the payload of a content
MaxBody == 1        \* payload pieces of a content
MaxKeyLen == 2      \* characters of a language name or text handed to cacheKey
DEFAULT_MAX_CONCURRENT == 3

\* Containers are numbered in the order in which they are first observed.
Msgs == 1..NumMsgs
Jobs == 1..MaxJobs
\* textContent of a message after trim(); "a" is shorter than 2 characters
Texts == {"a", "hi"}
\* settings.targetLang values; "German" has no code in getCodeForLangName
TargetLangs == {"Korean", "German"}
\* message.text of the requests that drive the cache on its own
CacheTexts == {"hi", "yo"}
\* the values cacheSet is called with: translations, or the text itself on a skip
CacheValues == {"v1", "v2"}
\* the values the popup's maxConcurrent select offers: positive integers
LimitOptions == 1..MaxLimit
\* maxConcurrentRequests as stored; 0 stands for every falsy value (0, missing,
\* the NaN parseInt makes of a value that is not a number)
StoredValues == {0} \cup LimitOptions

VARIABLES
    \* content script
    currentMaxConcurrent, translationQueue, inFlightCount, attr, loadPending,
    \* chrome.storage.local
    stored, enabled, targetLang,
    \* jobs: one closure handed to enqueue each, numbered in enqueue order
    nextJob, jmsg, jtext, phase, jlang, resp,
    \* background service worker
    translationCache,
    \* history
    admitted, adapterCalls, detectCalls, limitChanged, sawStored, evictedKeys,
    reportedTarget, janswer,
    \* the cache driven on its own: the last operation and a reference LRU
    lastOp, lruRef,
    \* the jobs whose request the runtime never answers
    unresponsive,
    \* translate and cacheKey applied on their own: the input and the outcome
    probe, keyProbe,
    \* the single-slot queue of the earlier content script
    isProcessing

vars == <<currentMaxConcurrent, translationQueue, inFlightCount, attr, loadPending,
          stored, enabled, targetLang, nextJob, jmsg, jtext, phase, jlang, resp,
          translationCache, admitted, adapterCalls, detectCalls, limitChanged,
          sawStored, evictedKeys, reportedTarget, janswer, lastOp, lruRef,
          unresponsive, probe, keyProbe, isProcessing>>

contentVars == <<currentMaxConcurrent, translationQueue, inFlightCount, attr, loadPending>>
storeVars == <<stored, enabled, targetLang>>
workerVars == <<jlang, resp, translationCache, adapterCalls, detectCalls, sawStored,
               evictedKeys, reportedTarget, janswer>>
auxVars == <<lastOp, lruRef, unresponsive, probe, keyProbe, isProcessing>>

\* ------------------------------------------------------- pure functions

\* the stored number taken as it is, without the `|| 3`
OrDefault_noFallback(v) == v

\* The value JavaScript's `x || 3` yields for a stored number
OrDefault(v) ==
    IF v = 0 THEN DEFAULT_MAX_CONCURRENT ELSE v

\* processQueue with `<=` for `<` in the loop condition
RECURSIVE processQueue_offByOne(_, _, _)
processQueue_offByOne(q, n, lim) ==
    IF Len(q) > 0 /\ n <= lim
    THEN LET r == processQueue_offByOne(Tail(q), n + 1, lim)
         IN  [queue |-> r.queue, inFlight |-> r.inFlight,
              started |-> <<Head(q)>> \o r.started]
    ELSE [queue |-> q, inFlight |-> n, started |-> <<>>]

\* processQueue with pop() for shift()
RECURSIVE processQueue_lifo(_, _, _)
processQueue_lifo(q, n, lim) ==
    IF Len(q) > 0 /\ n < lim
    THEN LET r == processQueue_lifo(SubSeq(q, 1, Len(q) - 1), n + 1, lim)
         IN  [queue |-> r.queue, inFlight |-> r.inFlight,
              started |-> <<q[Len(q)]>> \o r.started]
    ELSE [queue |-> q, inFlight |-> n, started |-> <<>>]

\* processQueue with splice(0, 2)[0] for shift(): the job behind the admitted
\* one leaves the pending list without being started
RECURSIVE processQueue_dropOne(_, _, _)
processQueue_dropOne(q, n, lim) ==
    IF Len(q) > 0 /\ n < lim
    THEN LET r == processQueue_dropOne(SubSeq(q, 3, Len(q)), n + 1, lim)
         IN  [queue |-> r.queue, inFlight |-> r.inFlight,
              started |-> <<Head(q)>> \o r.started]
    ELSE [queue |-> q, inFlight |-> n, started |-> <<>>]

\* the while loop of processQueue: shift and start tasks while capacity remains
RECURSIVE processQueue(_, _, _)
processQueue(q, n, lim) ==
    IF Len(q) > 0 /\ n < lim
    THEN LET r == processQueue(Tail(q), n + 1, lim)
         IN  [queue |-> r.queue, inFlight |-> r.inFlight,
              started |-> <<Head(q)>> \o r.started]
    ELSE [queue |-> q, inFlight |-> n, started |-> <<>>]

Range(s) == {s[i] : i \in 1..Len(s)}
Min(a, b) == IF a < b THEN a ELSE b
Max(a, b) == IF a > b THEN a ELSE b

\* `${settings.targetLang}::${message.text}`
\* the key without the separator
cacheKey_noSeparator(lang, text) == lang \o text

cacheKey(lang, text) == lang \o "::" \o text

getCodeForLangName(langName) ==
    CASE langName = "Korean" -> "ko"
      [] langName = "English" -> "en"
      [] langName = "Japanese" -> "ja"
      [] langName = "Chinese (Simplified)" -> "zh"
      [] langName = "Spanish" -> "es"
      [] langName = "French" -> "fr"
      [] OTHER -> ""

\* --- the Map translationCache: a sequence of entries in insertion order
MapHas(m, k) == \E i \in 1..Len(m) : m[i].k = k
MapIndex(m, k) == CHOOSE i \in 1..Len(m) : m[i].k = k
MapGet(m, k) == m[MapIndex(m, k)].v
MapDelete(m, k) ==
    IF MapHas(m, k)
    THEN LET i == MapIndex(m, k)
         IN  SubSeq(m, 1, i - 1) \o SubSeq(m, i + 1, Len(m))
    ELSE m
\* Map.prototype.set: an existing key keeps its position, a new key goes last
MapSet(m, k, v) ==
    IF MapHas(m, k)
    THEN [m EXCEPT ![MapIndex(m, k)] = [k |-> k, v |-> v]]
    ELSE Append(m, [k |-> k, v |-> v])

\* cacheGet that returns the value without the delete and re-insert
cacheGet_noTouch(m, k) == m

\* cacheSet that evicts only when the map is over its capacity
cacheSet_evictWhenOver(m, k, v) ==
    LET m1 == IF Len(m) > MAX_CACHE_SIZE /\ Len(m) > 0
              THEN MapDelete(m, m[1].k)
              ELSE m
    IN  MapSet(m1, k, v)

\* cacheGet: the map after the call (a hit is deleted and re-inserted)
cacheGet(m, k) ==
    IF MapHas(m, k) THEN MapSet(MapDelete(m, k), k, MapGet(m, k)) ELSE m

\* cacheSet: evict the first key when the map is full, then set
cacheSet(m, k, v) ==
    LET m1 == IF Len(m) >= MAX_CACHE_SIZE /\ Len(m) > 0
              THEN MapDelete(m, m[1].k)
              ELSE m
    IN  MapSet(m1, k, v)

\* --- a reference LRU of capacity MAX_CACHE_SIZE, least recently touched first
RefGet(m, k) ==
    IF MapHas(m, k) THEN Append(MapDelete(m, k), [k |-> k, v |-> MapGet(m, k)]) ELSE m
RefSet(m, k, v) ==
    IF MapHas(m, k) THEN Append(MapDelete(m, k), [k |-> k, v |-> v])
    ELSE IF Len(m) >= MAX_CACHE_SIZE THEN Append(Tail(m), [k |-> k, v |-> v])
    ELSE Append(m, [k |-> k, v |-> v])

\* the last operation on the cache: its kind, key, value written and value returned
NoOp == [op |-> "none", k |-> "", v |-> "", hit |-> FALSE, ret |-> ""]

\* --- responses of the background (TranslateResponse), plus a messaging error
NoResp == [kind |-> "none", success |-> FALSE, result |-> "", error |-> "",
           cached |-> FALSE, skipped |-> FALSE]
Failure(msg) == [kind |-> "response", success |-> FALSE, result |-> "", error |-> msg,
                 cached |-> FALSE, skipped |-> FALSE]
Success(text, isCached, isSkipped) ==
    [kind |-> "response", success |-> TRUE, result |-> text, error |-> "",
     cached |-> isCached, skipped |-> isSkipped]
LastError == [kind |-> "lastError", success |-> FALSE, result |-> "", error |-> "",
              cached |-> FALSE, skipped |-> FALSE]

\* --- message content of a chat completion: the string cut into pieces, each
\* a run of whitespace, a Markdown fence, the word json, or a payload
\* (the fence is three backquotes in the program; a TLA+ string cannot hold a
\* backquote, so the piece is written with apostrophes)
WS == " "
FENCE == "'''"
ObjT == "{\"translation\":\"T\"}"
ObjEmpty == "{\"translation\":\"\"}"
ObjOther == "{\"text\":\"T\"}"

\* the string the pieces make
RECURSIVE Render(_)
Render(c) == IF c = <<>> THEN "" ELSE Head(c) \o Render(Tail(c))

\* String.prototype.trim
RECURSIVE TrimStart(_)
TrimStart(c) == IF c # <<>> /\ Head(c) = WS THEN TrimStart(Tail(c)) ELSE c
RECURSIVE TrimEnd(_)
TrimEnd(c) ==
    IF c # <<>> /\ c[Len(c)] = WS THEN TrimEnd(SubSeq(c, 1, Len(c) - 1)) ELSE c
Trim(c) == TrimEnd(TrimStart(c))

\* content.replace(/\s*```$/, "")
StripClosingFence(c) ==
    IF c # <<>> /\ c[Len(c)] = FENCE THEN TrimEnd(SubSeq(c, 1, Len(c) - 1)) ELSE c

\* the two startsWith branches with their replace calls
StripFence(c) ==
    IF Len(c) >= 2 /\ c[1] = FENCE /\ c[2] = "json"
    THEN StripClosingFence(TrimStart(SubSeq(c, 3, Len(c))))
    ELSE IF Len(c) >= 1 /\ c[1] = FENCE
    THEN StripClosingFence(TrimStart(Tail(c)))
    ELSE c

\* JSON.parse accepts the string: surrounding whitespace and one JSON value
JsonParses(c) ==
    Len(Trim(c)) = 1 /\ Trim(c)[1] \in {ObjT, ObjEmpty, ObjOther, "null"}
\* parsed.translation of a parsed value: present or not, and its value
\* (reading it off null throws inside the try block, as a missing field falls
\* through to the fallback)
TranslationField(c) ==
    CASE Trim(c)[1] = ObjT -> [present |-> TRUE, value |-> "T"]
      [] Trim(c)[1] = ObjEmpty -> [present |-> TRUE, value |-> ""]
      [] OTHER -> [present |-> FALSE, value |-> ""]

\* lines 82-100 of translate on the trimmed, non-empty content
ExtractTranslation(c) ==
    LET stripped == StripFence(c)
    IN  IF JsonParses(stripped) /\ TranslationField(stripped).value # ""
        THEN TranslationField(stripped).value
        ELSE Render(stripped)

\* an HTTP response of the inference server: response.ok is status in 200..299;
\* content is choices[0].message.content when the body has one
Answer(status, statusText, content) ==
    [ok |-> status \in 200..299, status |-> status, statusText |-> statusText,
     hasContent |-> TRUE, content |-> content]
AnswerWithoutContent(status, statusText) ==
    [ok |-> status \in 200..299, status |-> status, statusText |-> statusText,
     hasContent |-> FALSE, content |-> <<>>]
NoAnswer == [ok |-> FALSE, status |-> 0, statusText |-> "", hasContent |-> FALSE,
             content |-> <<>>]

\* what the inference server may answer for translate(text, lang): plain text
\* that names the request it answers, nothing, or an error status
ServerAnswers(text, lang) ==
    { Answer(500, "Internal Server Error", <<>>),
      Answer(404, "Not Found", <<lang \o "<" \o text \o ">1">>),
      Answer(200, "OK", <<>>),
      Answer(200, "OK", <<lang \o "<" \o text \o ">1">>),
      Answer(200, "OK", <<lang \o "<" \o text \o ">2">>) }

\* success answers whose first choice has empty, whitespace-only or no
\* content, and one that has a translation
EmptyAnswers(text, lang) ==
    { Answer(200, "OK", <<>>),
      Answer(200, "OK", <<WS>>),
      AnswerWithoutContent(200, "OK"),
      Answer(200, "OK", <<lang \o "<" \o text \o ">1">>) }

\* `API ${response.status}: ${response.statusText}`
ApiError(status, statusText) == "API " \o ToString(status) \o ": " \o statusText

\* translate with a fixed message for every non-success status
translate_fixedMessage(answer) ==
    IF ~answer.ok THEN [threw |-> TRUE, value |-> "API error"]
    ELSE IF ~answer.hasContent \/ Trim(answer.content) = <<>>
    THEN [threw |-> TRUE, value |-> "Empty response from API"]
    ELSE [threw |-> FALSE, value |-> ExtractTranslation(Trim(answer.content))]

\* translate that tests the content for emptiness without trimming it
translate_noTrim(answer) ==
    IF ~answer.ok THEN [threw |-> TRUE, value |-> ApiError(answer.status, answer.statusText)]
    ELSE IF ~answer.hasContent \/ answer.content = <<>>
    THEN [threw |-> TRUE, value |-> "Empty response from API"]
    ELSE [threw |-> FALSE, value |-> ExtractTranslation(answer.content)]

\* TranslatorClient.translate on an answer: the returned string, or a throw
translate(answer) ==
    IF ~answer.ok THEN [threw |-> TRUE, value |-> ApiError(answer.status, answer.statusText)]
    ELSE IF ~answer.hasContent \/ Trim(answer.content) = <<>>
    THEN [threw |-> TRUE, value |-> "Empty response from API"]
    ELSE [threw |-> FALSE, value |-> ExtractTranslation(Trim(answer.content))]

\* no answer handed to translate yet
NoProbe == [stage |-> "idle", answer |-> NoAnswer,
            result |-> [threw |-> FALSE, value |-> ""]]
\* no pair handed to cacheKey yet; languages and texts are kept as sequences
\* of characters, keys as the strings they are
NoKeyProbe == [stage |-> "idle", lang1 |-> <<>>, text1 |-> <<>>, lang2 |-> <<>>,
               text2 |-> <<>>, key1 |-> "", key2 |-> ""]

\* chrome.i18n.detectLanguage results
DetectResults ==
    { [isReliable |-> FALSE, languages |-> <<"ko">>],
      [isReliable |-> TRUE, languages |-> <<>>],
      [isReliable |-> TRUE, languages |-> <<"ko">>],
      [isReliable |-> TRUE, languages |-> <<"en">>] }

\* detection reliably reports targetCode as the dominant language
ReliablyReports(detected, targetCode) ==
    /\ detected.isReliable
    /\ detected.languages # <<>>
    /\ Head(detected.languages) = targetCode

\* topLang === targetCode || topLang.startsWith(targetCode), on two-letter codes
IsSkip(detected, targetCode) ==
    /\ detected.isReliable
    /\ Len(detected.languages) > 0
    /\ detected.languages[1] = targetCode

\* ------------------------------------------------------------- initial state
Init ==
    /\ currentMaxConcurrent = DEFAULT_MAX_CONCURRENT
    /\ translationQueue = <<>>
    /\ inFlightCount = 0
    /\ attr = [m \in Msgs |-> FALSE]
    /\ loadPending = TRUE
    /\ stored \in StoredValues
    /\ enabled \in BOOLEAN
    /\ targetLang \in TargetLangs
    /\ nextJob = 1
    /\ jmsg = [j \in Jobs |-> 0]
    /\ jtext = [j \in Jobs |-> ""]
    /\ phase = [j \in Jobs |-> "new"]
    /\ jlang = [j \in Jobs |-> ""]
    /\ resp = [j \in Jobs |-> NoResp]
    /\ translationCache = <<>>
    /\ admitted = <<>>
    /\ adapterCalls = [j \in Jobs |-> 0]
    /\ detectCalls = [j \in Jobs |-> 0]
    /\ limitChanged = FALSE
    /\ sawStored = [j \in Jobs |-> {}]
    /\ evictedKeys = {}
    /\ reportedTarget = [j \in Jobs |-> FALSE]
    /\ janswer = [j \in Jobs |-> NoAnswer]
    /\ lastOp = NoOp
    /\ lruRef = <<>>
    /\ unresponsive \in SUBSET Jobs
    /\ probe = NoProbe
    /\ keyProbe = NoKeyProbe
    /\ isProcessing = FALSE

\* a task started by processQueue calls chrome.runtime.sendMessage at once
StartAll(ph, started) ==
    [j \in Jobs |-> IF j \in Range(started) THEN "sent" ELSE ph[j]]

\* container m has been handed to translateMessage before
Seen(m) == attr[m] \/ \E j \in Jobs : jmsg[j] = m

\* ------------------------------------------------------------ content script

\* translateMessage(originalP) for container m whose trimmed text is t
TranslateMessage(m, t) ==
    /\ ~attr[m]
    /\ \A m0 \in Msgs : m0 < m => Seen(m0)
    /\ attr' = [attr EXCEPT ![m] = TRUE]
    /\ IF Len(t) < 2
       THEN UNCHANGED <<translationQueue, inFlightCount, nextJob, jmsg, jtext, phase,
                        admitted>>
       ELSE LET j == nextJob
                r == processQueue(Append(translationQueue, j), inFlightCount,
                                  currentMaxConcurrent)
            IN  /\ nextJob' = nextJob + 1
                /\ jmsg' = [jmsg EXCEPT ![j] = m]
                /\ jtext' = [jtext EXCEPT ![j] = t]
                /\ translationQueue' = r.queue
                /\ inFlightCount' = r.inFlight
                /\ phase' = StartAll([phase EXCEPT ![j] = "queued"], r.started)
                /\ admitted' = admitted \o r.started
    /\ UNCHANGED <<currentMaxConcurrent, loadPending, storeVars, workerVars,
                   limitChanged, auxVars>>

\* Callback with `inFlightCount--; processQueue()` at the end of the try block
\* instead of in finally
Callback_noReleaseOnFailure(j, response) ==
    /\ LET rejected == \/ response.kind = "lastError"
                       \/ ~(response.success /\ response.result # "")
           r == IF rejected
                THEN [queue |-> translationQueue, inFlight |-> inFlightCount,
                      started |-> <<>>]
                ELSE processQueue(translationQueue, inFlightCount - 1,
                                  currentMaxConcurrent)
       IN  /\ attr' = IF rejected THEN [attr EXCEPT ![jmsg[j]] = FALSE] ELSE attr
           /\ translationQueue' = r.queue
           /\ inFlightCount' = r.inFlight
           /\ phase' = StartAll([phase EXCEPT ![j] = "done"], r.started)
           /\ admitted' = admitted \o r.started
    /\ UNCHANGED <<currentMaxConcurrent, loadPending, storeVars, nextJob, jmsg, jtext,
                   workerVars, limitChanged, auxVars>>

\* Callback without the removeAttribute of the catch block
Callback_keepMarker(j, response) ==
    /\ LET r == processQueue(translationQueue, inFlightCount - 1, currentMaxConcurrent)
       IN  /\ attr' = attr
           /\ translationQueue' = r.queue
           /\ inFlightCount' = r.inFlight
           /\ phase' = StartAll([phase EXCEPT ![j] = "done"], r.started)
           /\ admitted' = admitted \o r.started
    /\ UNCHANGED <<currentMaxConcurrent, loadPending, storeVars, nextJob, jmsg, jtext,
                   workerVars, limitChanged, auxVars>>

\* Callback whose catch block pushes the failed task back on the queue
Callback_retryOnFailure(j, response) ==
    /\ LET rejected == \/ response.kind = "lastError"
                       \/ ~(response.success /\ response.result # "")
           q == IF rejected THEN Append(translationQueue, j) ELSE translationQueue
           r == processQueue(q, inFlightCount - 1, currentMaxConcurrent)
       IN  /\ attr' = attr
           /\ translationQueue' = r.queue
           /\ inFlightCount' = r.inFlight
           /\ phase' = StartAll([phase EXCEPT ![j] = IF rejected THEN "queued" ELSE "done"],
                                r.started)
           /\ admitted' = admitted \o r.started
    /\ UNCHANGED <<currentMaxConcurrent, loadPending, storeVars, nextJob, jmsg, jtext,
                   workerVars, limitChanged, auxVars>>

\* Callback whose finally block releases the slot without calling processQueue
Callback_noProcessQueue(j, response) ==
    /\ LET rejected == \/ response.kind = "lastError"
                       \/ ~(response.success /\ response.result # "")
       IN  /\ attr' = IF rejected THEN [attr EXCEPT ![jmsg[j]] = FALSE] ELSE attr
           /\ inFlightCount' = inFlightCount - 1
           /\ phase' = [phase EXCEPT ![j] = "done"]
    /\ UNCHANGED <<currentMaxConcurrent, loadPending, storeVars, nextJob, jmsg, jtext,
                   workerVars, limitChanged, auxVars, translationQueue, admitted>>

\* Callback with the removeAttribute in the finally block instead of the catch
Callback_clearMarkerAlways(j, response) ==
    /\ LET r == processQueue(translationQueue, inFlightCount - 1, currentMaxConcurrent)
       IN  /\ attr' = [attr EXCEPT ![jmsg[j]] = FALSE]
           /\ translationQueue' = r.queue
           /\ inFlightCount' = r.inFlight
           /\ phase' = StartAll([phase EXCEPT ![j] = "done"], r.started)
           /\ admitted' = admitted \o r.started
    /\ UNCHANGED <<currentMaxConcurrent, loadPending, storeVars, nextJob, jmsg, jtext,
                   workerVars, limitChanged, auxVars>>

\* Callback whose catch gives the slot back as well as its finally
Callback_doubleRelease(j, response) ==
    /\ LET rejected == \/ response.kind = "lastError"
                       \/ ~(response.success /\ response.result # "")
           r == processQueue(translationQueue,
                             inFlightCount - (IF rejected THEN 2 ELSE 1),
                             currentMaxConcurrent)
       IN  /\ attr' = IF rejected THEN [attr EXCEPT ![jmsg[j]] = FALSE] ELSE attr
           /\ translationQueue' = r.queue
           /\ inFlightCount' = r.inFlight
           /\ phase' = StartAll([phase EXCEPT ![j] = "done"], r.started)
           /\ admitted' = admitted \o r.started
    /\ UNCHANGED <<currentMaxConcurrent, loadPending, storeVars, nextJob, jmsg, jtext,
                   workerVars, limitChanged, auxVars>>

\* the sendMessage callback of job j run on `response`, then the task's catch
\* and finally
Callback(j, response) ==
    /\ LET rejected == \/ response.kind = "lastError"
                       \/ ~(response.success /\ response.result # "")
           r == processQueue(translationQueue, inFlightCount - 1, currentMaxConcurrent)
       IN  /\ attr' = IF rejected THEN [attr EXCEPT ![jmsg[j]] = FALSE] ELSE attr
           /\ translationQueue' = r.queue
           /\ inFlightCount' = r.inFlight
           /\ phase' = StartAll([phase EXCEPT ![j] = "done"], r.started)
           /\ admitted' = admitted \o r.started
    /\ UNCHANGED <<currentMaxConcurrent, loadPending, storeVars, nextJob, jmsg, jtext,
                   workerVars, limitChanged, auxVars>>

\* OnChanged that also clamps inFlightCount to the new limit
OnChanged_clamp(v) ==
    /\ v # stored
    /\ stored' = v
    /\ LET lim == OrDefault(v)
           r == processQueue(translationQueue, Min(inFlightCount, lim), lim)
       IN  /\ currentMaxConcurrent' = lim
           /\ translationQueue' = r.queue
           /\ inFlightCount' = r.inFlight
           /\ phase' = StartAll(phase, r.started)
           /\ admitted' = admitted \o r.started
    /\ limitChanged' = TRUE
    /\ UNCHANGED <<attr, loadPending, enabled, targetLang, nextJob, jmsg, jtext,
                   workerVars, auxVars>>

\* chrome.storage.onChanged listener, run for a write of maxConcurrentRequests = v
OnChanged(v) ==
    /\ v # stored
    /\ stored' = v
    /\ LET lim == OrDefault(v)
           r == processQueue(translationQueue, inFlightCount, lim)
       IN  /\ currentMaxConcurrent' = lim
           /\ translationQueue' = r.queue
           /\ inFlightCount' = r.inFlight
           /\ phase' = StartAll(phase, r.started)
           /\ admitted' = admitted \o r.started
    /\ limitChanged' = TRUE
    /\ UNCHANGED <<attr, loadPending, enabled, targetLang, nextJob, jmsg, jtext,
                   workerVars, auxVars>>

\* callback of the initial chrome.storage.local.get("maxConcurrentRequests")
LoadLimit ==
    /\ loadPending
    /\ loadPending' = FALSE
    /\ currentMaxConcurrent' = IF stored # 0 THEN stored ELSE currentMaxConcurrent
    /\ UNCHANGED <<translationQueue, inFlightCount, attr, storeVars, nextJob, jmsg,
                   jtext, phase, workerVars, admitted, limitChanged, auxVars>>

\* ------------------------------------------------------- background worker

\* chrome.runtime.lastError: the message of job j never reaches the worker
MessagingError(j) ==
    /\ phase[j] = "sent"
    /\ phase' = [phase EXCEPT ![j] = "reply"]
    /\ resp' = [resp EXCEPT ![j] = LastError]
    /\ UNCHANGED <<contentVars, storeVars, nextJob, jmsg, jtext, jlang,
                   translationCache, admitted, adapterCalls, detectCalls, limitChanged,
                   auxVars, sawStored, evictedKeys, reportedTarget, janswer>>

\* the jobs whose handler has written a result for (lang, text) to the cache
StoredBy(lang, text) ==
    {i \in Jobs : /\ jtext[i] = text /\ jlang[i] = lang
                  /\ resp[i].success /\ ~resp[i].cached}

\* BgSettings with the cache lookup moved before the enabled check
BgSettings_cacheFirst(j) ==
    /\ phase[j] = "sent"
    /\ jlang' = [jlang EXCEPT ![j] = targetLang]
    /\ sawStored' = [sawStored EXCEPT ![j] = StoredBy(targetLang, jtext[j])]
    /\ LET key == cacheKey(targetLang, jtext[j])
       IN  IF MapHas(translationCache, key)
           THEN /\ resp' = [resp EXCEPT ![j] =
                               Success(MapGet(translationCache, key), TRUE, FALSE)]
                /\ translationCache' = cacheGet(translationCache, key)
                /\ phase' = [phase EXCEPT ![j] = "reply"]
                /\ UNCHANGED <<adapterCalls, detectCalls>>
           ELSE IF ~enabled
           THEN /\ resp' = [resp EXCEPT ![j] = Failure("Translation is disabled")]
                /\ phase' = [phase EXCEPT ![j] = "reply"]
                /\ UNCHANGED <<translationCache, adapterCalls, detectCalls>>
           ELSE IF getCodeForLangName(targetLang) # ""
           THEN /\ phase' = [phase EXCEPT ![j] = "detect"]
                /\ detectCalls' = [detectCalls EXCEPT ![j] = @ + 1]
                /\ UNCHANGED <<resp, translationCache, adapterCalls>>
           ELSE /\ phase' = [phase EXCEPT ![j] = "fetch"]
                /\ adapterCalls' = [adapterCalls EXCEPT ![j] = @ + 1]
                /\ UNCHANGED <<resp, translationCache, detectCalls>>
    /\ UNCHANGED <<contentVars, storeVars, nextJob, jmsg, jtext, admitted,
                   limitChanged, auxVars, evictedKeys, reportedTarget, janswer>>

\* onMessage listener from the settings callback to the next await (or the end)
BgSettings(j) ==
    /\ phase[j] = "sent"
    /\ jlang' = [jlang EXCEPT ![j] = targetLang]
    /\ sawStored' = [sawStored EXCEPT ![j] = StoredBy(targetLang, jtext[j])]
    /\ LET key == cacheKey(targetLang, jtext[j])
       IN  IF ~enabled
           THEN /\ resp' = [resp EXCEPT ![j] = Failure("Translation is disabled")]
                /\ phase' = [phase EXCEPT ![j] = "reply"]
                /\ UNCHANGED <<translationCache, adapterCalls, detectCalls>>
           ELSE IF MapHas(translationCache, key)
           THEN /\ resp' = [resp EXCEPT ![j] =
                               Success(MapGet(translationCache, key), TRUE, FALSE)]
                /\ translationCache' = cacheGet(translationCache, key)
                /\ phase' = [phase EXCEPT ![j] = "reply"]
                /\ UNCHANGED <<adapterCalls, detectCalls>>
           ELSE IF getCodeForLangName(targetLang) # ""
           THEN /\ phase' = [phase EXCEPT ![j] = "detect"]
                /\ detectCalls' = [detectCalls EXCEPT ![j] = @ + 1]
                /\ UNCHANGED <<resp, translationCache, adapterCalls>>
           ELSE /\ phase' = [phase EXCEPT ![j] = "fetch"]
                /\ adapterCalls' = [adapterCalls EXCEPT ![j] = @ + 1]
                /\ UNCHANGED <<resp, translationCache, detectCalls>>
    /\ UNCHANGED <<contentVars, storeVars, nextJob, jmsg, jtext, admitted,
                   limitChanged, auxVars, evictedKeys, reportedTarget, janswer>>

\* the keys a cache write removed
Evicted(before, after) ==
    {before[i].k : i \in 1..Len(before)} \ {after[i].k : i \in 1..Len(after)}

\* BgDetect without the `return` of the skip branch: the handler goes on to
\* client.translate
BgDetect_noReturnOnSkip(j, detected) ==
    /\ phase[j] = "detect"
    /\ reportedTarget' = [reportedTarget EXCEPT ![j] =
                             ReliablyReports(detected, getCodeForLangName(jlang[j]))]
    /\ LET key == cacheKey(jlang[j], jtext[j])
           c == cacheSet(translationCache, key, jtext[j])
       IN  IF IsSkip(detected, getCodeForLangName(jlang[j]))
           THEN /\ translationCache' = c
                /\ evictedKeys' = evictedKeys \cup Evicted(translationCache, c)
                /\ resp' = [resp EXCEPT ![j] = Success(jtext[j], FALSE, TRUE)]
           ELSE UNCHANGED <<resp, translationCache, evictedKeys>>
    /\ phase' = [phase EXCEPT ![j] = "fetch"]
    /\ adapterCalls' = [adapterCalls EXCEPT ![j] = @ + 1]
    /\ UNCHANGED <<contentVars, storeVars, nextJob, jmsg, jtext, jlang, admitted,
                   detectCalls, limitChanged, auxVars, sawStored, janswer>>

\* BgDetect without the cacheSet of the skip branch
BgDetect_noCacheOnSkip(j, detected) ==
    /\ phase[j] = "detect"
    /\ reportedTarget' = [reportedTarget EXCEPT ![j] =
                             ReliablyReports(detected, getCodeForLangName(jlang[j]))]
    /\ IF IsSkip(detected, getCodeForLangName(jlang[j]))
       THEN /\ resp' = [resp EXCEPT ![j] = Success(jtext[j], FALSE, TRUE)]
            /\ phase' = [phase EXCEPT ![j] = "reply"]
            /\ UNCHANGED adapterCalls
       ELSE /\ phase' = [phase EXCEPT ![j] = "fetch"]
            /\ adapterCalls' = [adapterCalls EXCEPT ![j] = @ + 1]
            /\ UNCHANGED resp
    /\ UNCHANGED <<contentVars, storeVars, nextJob, jmsg, jtext, jlang, admitted,
                   detectCalls, limitChanged, auxVars, sawStored, janswer,
                   translationCache, evictedKeys>>

\* onMessage listener from the detectLanguage callback on
BgDetect(j, detected) ==
    /\ phase[j] = "detect"
    /\ reportedTarget' = [reportedTarget EXCEPT ![j] =
                             ReliablyReports(detected, getCodeForLangName(jlang[j]))]
    /\ LET key == cacheKey(jlang[j], jtext[j])
           c == cacheSet(translationCache, key, jtext[j])
       IN  IF IsSkip(detected, getCodeForLangName(jlang[j]))
           THEN /\ translationCache' = c
                /\ evictedKeys' = evictedKeys \cup Evicted(translationCache, c)
                /\ resp' = [resp EXCEPT ![j] = Success(jtext[j], FALSE, TRUE)]
                /\ phase' = [phase EXCEPT ![j] = "reply"]
                /\ UNCHANGED adapterCalls
           ELSE /\ phase' = [phase EXCEPT ![j] = "fetch"]
                /\ adapterCalls' = [adapterCalls EXCEPT ![j] = @ + 1]
                /\ UNCHANGED <<resp, translationCache, evictedKeys>>
    /\ UNCHANGED <<contentVars, storeVars, nextJob, jmsg, jtext, jlang, admitted,
                   detectCalls, limitChanged, auxVars, sawStored, janswer>>

\* BgFetch without the cacheSet of the result
BgFetch_noStore(j, answer) ==
    /\ phase[j] = "fetch"
    /\ janswer' = [janswer EXCEPT ![j] = answer]
    /\ LET t == translate(answer)
       IN  IF t.threw
           THEN resp' = [resp EXCEPT ![j] = Failure(t.value)]
           ELSE resp' = [resp EXCEPT ![j] = Success(t.value, FALSE, FALSE)]
    /\ phase' = [phase EXCEPT ![j] = "reply"]
    /\ UNCHANGED <<contentVars, storeVars, nextJob, jmsg, jtext, jlang, admitted,
                   adapterCalls, detectCalls, limitChanged, auxVars, sawStored,
                   translationCache, evictedKeys, reportedTarget>>

\* BgFetch that stores what translate produced before looking at the outcome
BgFetch_storeOnThrow(j, answer) ==
    /\ phase[j] = "fetch"
    /\ janswer' = [janswer EXCEPT ![j] = answer]
    /\ LET key == cacheKey(jlang[j], jtext[j])
           t == translate(answer)
           c == cacheSet(translationCache, key, t.value)
       IN  /\ translationCache' = c
           /\ evictedKeys' = evictedKeys \cup Evicted(translationCache, c)
           /\ resp' = [resp EXCEPT ![j] = IF t.threw THEN Failure(t.value)
                                          ELSE Success(t.value, FALSE, FALSE)]
    /\ phase' = [phase EXCEPT ![j] = "reply"]
    /\ UNCHANGED <<contentVars, storeVars, nextJob, jmsg, jtext, jlang, admitted,
                   adapterCalls, detectCalls, limitChanged, auxVars, sawStored,
                   reportedTarget>>

\* BgFetch that builds the key from the target language stored now, not from
\* the settings the handler read at its start
BgFetch_keyFromCurrentLang(j, answer) ==
    /\ phase[j] = "fetch"
    /\ janswer' = [janswer EXCEPT ![j] = answer]
    /\ LET key == cacheKey(targetLang, jtext[j])
           t == translate(answer)
           c == cacheSet(translationCache, key, t.value)
       IN  IF t.threw
           THEN /\ resp' = [resp EXCEPT ![j] = Failure(t.value)]
                /\ UNCHANGED <<translationCache, evictedKeys>>
           ELSE /\ translationCache' = c
                /\ evictedKeys' = evictedKeys \cup Evicted(translationCache, c)
                /\ resp' = [resp EXCEPT ![j] = Success(t.value, FALSE, FALSE)]
    /\ phase' = [phase EXCEPT ![j] = "reply"]
    /\ UNCHANGED <<contentVars, storeVars, nextJob, jmsg, jtext, jlang, admitted,
                   adapterCalls, detectCalls, limitChanged, auxVars, sawStored,
                   reportedTarget>>

\* onMessage listener from the end of client.translate on
BgFetch(j, answer) ==
    /\ phase[j] = "fetch"
    /\ janswer' = [janswer EXCEPT ![j] = answer]
    /\ LET key == cacheKey(jlang[j], jtext[j])
           t == translate(answer)
           c == cacheSet(translationCache, key, t.value)
       IN  IF t.threw
           THEN /\ resp' = [resp EXCEPT ![j] = Failure(t.value)]
                /\ UNCHANGED <<translationCache, evictedKeys>>
           ELSE /\ translationCache' = c
                /\ evictedKeys' = evictedKeys \cup Evicted(translationCache, c)
                /\ resp' = [resp EXCEPT ![j] = Success(t.value, FALSE, FALSE)]
    /\ phase' = [phase EXCEPT ![j] = "reply"]
    /\ UNCHANGED <<contentVars, storeVars, nextJob, jmsg, jtext, jlang, admitted,
                   adapterCalls, detectCalls, limitChanged, auxVars, sawStored,
                   reportedTarget>>

\* the worker's cache driven on its own: cacheGet(k) as a handler calls it
CacheGetOp(k) ==
    /\ lastOp' = [op |-> "get", k |-> k, v |-> "",
                  hit |-> MapHas(translationCache, k),
                  ret |-> IF MapHas(translationCache, k)
                          THEN MapGet(translationCache, k) ELSE ""]
    /\ translationCache' = cacheGet(translationCache, k)
    /\ lruRef' = RefGet(lruRef, k)
    /\ UNCHANGED <<contentVars, storeVars, nextJob, jmsg, jtext, phase, jlang, resp,
                   admitted, adapterCalls, detectCalls, limitChanged, sawStored,
                   evictedKeys, reportedTarget, janswer, unresponsive,
                   probe, keyProbe, isProcessing>>

\* cacheSet(k, v) as a handler calls it
CacheSetOp(k, v) ==
    /\ lastOp' = [op |-> "set", k |-> k, v |-> v,
                  hit |-> MapHas(translationCache, k), ret |-> ""]
    /\ translationCache' = cacheSet(translationCache, k, v)
    /\ lruRef' = RefSet(lruRef, k, v)
    /\ UNCHANGED <<contentVars, storeVars, nextJob, jmsg, jtext, phase, jlang, resp,
                   admitted, adapterCalls, detectCalls, limitChanged, sawStored,
                   evictedKeys, reportedTarget, janswer, unresponsive,
                   probe, keyProbe, isProcessing>>

\* ------------------------------------------------------------ settings store

\* popup: saveSettings({ enabled })
SetEnabled(b) ==
    /\ b # enabled
    /\ enabled' = b
    /\ UNCHANGED <<contentVars, stored, targetLang, nextJob, jmsg, jtext, phase,
                   workerVars, admitted, limitChanged, auxVars>>

\* popup: saveSettings({ targetLang })
SetTargetLang(l) ==
    /\ l # targetLang
    /\ targetLang' = l
    /\ UNCHANGED <<contentVars, stored, enabled, nextJob, jmsg, jtext, phase,
                   workerVars, admitted, limitChanged, auxVars>>

\* ------------------------------------- the earlier content script's queue

\* processQueue of src/src/content/index.ts on queue q and flag busy: the queue
\* and flag it leaves and the task it starts
SingleSlotProcessQueue(q, busy) ==
    IF busy \/ q = <<>>
    THEN [queue |-> q, isProcessing |-> busy, started |-> <<>>]
    ELSE [queue |-> Tail(q), isProcessing |-> TRUE, started |-> <<Head(q)>>]

\* translateMessage(originalP) for container m whose trimmed text is t
SingleSlotTranslateMessage(m, t) ==
    /\ ~attr[m]
    /\ \A m0 \in Msgs : m0 < m => Seen(m0)
    /\ attr' = [attr EXCEPT ![m] = TRUE]
    /\ IF Len(t) < 2
       THEN UNCHANGED <<translationQueue, isProcessing, nextJob, jmsg, jtext, phase,
                        admitted>>
       ELSE LET j == nextJob
                r == SingleSlotProcessQueue(Append(translationQueue, j), isProcessing)
            IN  /\ nextJob' = nextJob + 1
                /\ jmsg' = [jmsg EXCEPT ![j] = m]
                /\ jtext' = [jtext EXCEPT ![j] = t]
                /\ translationQueue' = r.queue
                /\ isProcessing' = r.isProcessing
                /\ phase' = StartAll([phase EXCEPT ![j] = "queued"], r.started)
                /\ admitted' = admitted \o r.started
    /\ UNCHANGED <<currentMaxConcurrent, inFlightCount, loadPending, storeVars,
                   workerVars, limitChanged, lastOp, lruRef, unresponsive, probe,
                   keyProbe>>

\* SingleSlotCallback with `isProcessing = false; processQueue()` at the end of
\* the try block instead of in finally
SingleSlotCallback_releaseInTry(j, response) ==
    /\ LET rejected == \/ response.kind = "lastError"
                       \/ ~(response.success /\ response.result # "")
           r == IF rejected
                THEN [queue |-> translationQueue, isProcessing |-> isProcessing,
                      started |-> <<>>]
                ELSE SingleSlotProcessQueue(translationQueue, FALSE)
       IN  /\ attr' = IF rejected THEN [attr EXCEPT ![jmsg[j]] = FALSE] ELSE attr
           /\ translationQueue' = r.queue
           /\ isProcessing' = r.isProcessing
           /\ phase' = StartAll([phase EXCEPT ![j] = "done"], r.started)
           /\ admitted' = admitted \o r.started
    /\ UNCHANGED <<currentMaxConcurrent, inFlightCount, loadPending, storeVars,
                   nextJob, jmsg, jtext, workerVars, limitChanged, lastOp, lruRef,
                   unresponsive, probe, keyProbe>>

\* the sendMessage callback of job j run on `response`, then the task's catch
\* and finally: isProcessing = false; processQueue()
SingleSlotCallback(j, response) ==
    /\ LET rejected == \/ response.kind = "lastError"
                       \/ ~(response.success /\ response.result # "")
           r == SingleSlotProcessQueue(translationQueue, FALSE)
       IN  /\ attr' = IF rejected THEN [attr EXCEPT ![jmsg[j]] = FALSE] ELSE attr
           /\ translationQueue' = r.queue
           /\ isProcessing' = r.isProcessing
           /\ phase' = StartAll([phase EXCEPT ![j] = "done"], r.started)
           /\ admitted' = admitted \o r.started
    /\ UNCHANGED <<currentMaxConcurrent, inFlightCount, loadPending, storeVars,
                   nextJob, jmsg, jtext, workerVars, limitChanged, lastOp, lruRef,
                   unresponsive, probe, keyProbe>>

\* ------------------------------------------------------------ specifications

\* Content script and background worker together, on a page where nobody
\* writes maxConcurrentRequests while it runs (the key is absent from storage,
\* so the initial load changes nothing and is taken to run first). Messages
\* have 2 characters or more: a shorter one is marked and reaches neither the
\* queue nor the worker.
Submit(m, t) ==
    /\ ~loadPending /\ Len(t) >= 2
    /\ m <= MaxReqs /\ nextJob <= MaxReqs
    /\ TranslateMessage(m, t)

OnResponse(j) ==
    phase[j] = "reply" /\ Callback(j, resp[j])

Next ==
    \/ \E m \in Msgs, t \in Texts : Submit(m, t)
    \/ \E j \in Jobs : OnResponse(j)
    \/ LoadLimit
    \/ \E j \in Jobs : MessagingError(j)
    \/ \E j \in Jobs : BgSettings(j)
    \/ \E j \in Jobs, d \in DetectResults : BgDetect(j, d)
    \/ \E j \in Jobs : \E a \in ServerAnswers(jtext[j], jlang[j]) : BgFetch(j, a)
    \/ \E b \in BOOLEAN : SetEnabled(b)
    \/ \E l \in TargetLangs : SetTargetLang(l)

SystemInit == Init /\ stored = 0 /\ unresponsive = {}

Spec == SystemInit /\ [][Next]_vars

\* the content script alone: every response the runtime can hand to the
\* sendMessage callback is an input; messages have 2 characters or more
Responses ==
    { LastError,
      Failure("Translation is disabled"),
      Failure(ApiError(500, "Internal Server Error")),
      Failure("Empty response from API"),
      Success("X", FALSE, FALSE),
      Success("X", TRUE, FALSE) }

QueueSubmit(m, t) ==
    nextJob <= MaxJobs /\ Len(t) >= 2 /\ TranslateMessage(m, t)

QueueResponse(j, response) ==
    phase[j] = "sent" /\ Callback(j, response)

QueueNext ==
    \/ \E m \in Msgs, t \in Texts : QueueSubmit(m, t)
    \/ \E j \in Jobs, r \in Responses : QueueResponse(j, r)
    \/ \E v \in StoredValues : OnChanged(v)
    \/ LoadLimit

QueueInit == Init /\ enabled = FALSE /\ targetLang = "Korean" /\ unresponsive = {}

SpecQueue == QueueInit /\ [][QueueNext]_vars

\* the content script alone when every request sent is answered in the end:
\* the runtime calls each sendMessage callback, with a response or lastError
LiveSubmit(m, t) ==
    m <= LiveJobs /\ nextJob <= LiveJobs /\ Len(t) >= 2 /\ TranslateMessage(m, t)

LiveNext ==
    \/ \E m \in Msgs, t \in Texts : LiveSubmit(m, t)
    \/ \E j \in Jobs, r \in Responses : QueueResponse(j, r)
    \/ \E v \in 0..LiveLimit : OnChanged(v)
    \/ LoadLimit

LiveInit == QueueInit /\ stored <= LiveLimit

EveryRequestAnswered ==
    \A j \in 1..LiveJobs : WF_vars(\E r \in Responses : QueueResponse(j, r))

SpecLive == LiveInit /\ [][LiveNext]_vars /\ EveryRequestAnswered

\* the content script alone when the requests of the first jobs are never
\* answered (an unresponsive inference server keeps the worker's handler
\* waiting) and every other request is; the limit is kept at 2 or more, and
\* messages of every length arrive
StallValues == {v \in StoredValues : OrDefault(v) >= 2}

StallSubmit(m, t) ==
    nextJob <= MaxJobs /\ TranslateMessage(m, t)

StallResponse(j, response) ==
    j \notin unresponsive /\ QueueResponse(j, response)

StallNext ==
    \/ \E m \in Msgs, t \in Texts : StallSubmit(m, t)
    \/ \E j \in Jobs, r \in Responses : StallResponse(j, r)
    \/ \E v \in StallValues : OnChanged(v)
    \/ LoadLimit

StallInit ==
    /\ Init /\ enabled = FALSE /\ targetLang = "Korean"
    /\ stored \in StallValues
    /\ unresponsive \in {1..k : k \in 1..(MaxJobs - 1)}

OthersAnswered ==
    \A j \in Jobs : WF_vars(\E r \in Responses : StallResponse(j, r))

SpecStall == StallInit /\ [][StallNext]_vars /\ OthersAnswered

\* the worker's cache alone, under every sequence of cacheGet and cacheSet
\* calls on keys of the form `${targetLang}::${text}`
CacheKeys == {cacheKey(l, t) : l \in TargetLangs, t \in CacheTexts}

CacheNext ==
    \/ \E k \in CacheKeys : CacheGetOp(k)
    \/ \E k \in CacheKeys, v \in CacheValues : CacheSetOp(k, v)

CacheInit ==
    Init /\ stored = 0 /\ enabled /\ targetLang = "Korean" /\ unresponsive = {}

SpecCache == CacheInit /\ [][CacheNext]_vars

\* content script and worker with translation enabled, against a server that
\* answers with a success status and, at times, without content
EmptyNext ==
    \/ \E m \in Msgs, t \in Texts : Submit(m, t)
    \/ \E j \in Jobs : OnResponse(j)
    \/ LoadLimit
    \/ \E j \in Jobs : BgSettings(j)
    \/ \E j \in Jobs, d \in DetectResults : BgDetect(j, d)
    \/ \E j \in Jobs : \E a \in EmptyAnswers(jtext[j], jlang[j]) : BgFetch(j, a)

EmptyInit ==
    /\ stored = 0 /\ enabled = TRUE /\ unresponsive = {}
    /\ Init

SpecEmpty == EmptyInit /\ [][EmptyNext]_vars

\* content script and worker with translation enabled, two texts and a target
\* language that the popup may change at any moment
LangSubmit(m, t) ==
    /\ ~loadPending
    /\ m <= MaxReqs /\ nextJob <= MaxReqs
    /\ TranslateMessage(m, t)

\* the server's answers that carry a translation, and one that carries none
LangAnswers(text, lang) ==
    {a \in ServerAnswers(text, lang) :
        a.status = 500 \/ (a.ok /\ a.hasContent /\ Trim(a.content) # <<>>)}

LangNext ==
    \/ \E m \in Msgs, t \in CacheTexts : LangSubmit(m, t)
    \/ \E j \in Jobs : OnResponse(j)
    \/ LoadLimit
    \/ \E j \in Jobs : BgSettings(j)
    \/ \E j \in Jobs, d \in DetectResults : BgDetect(j, d)
    \/ \E j \in Jobs : \E a \in LangAnswers(jtext[j], jlang[j]) : BgFetch(j, a)
    \/ \E l \in TargetLangs : SetTargetLang(l)

LangInit ==
    /\ stored = 0 /\ enabled = TRUE /\ unresponsive = {}
    /\ Init

SpecLang == LangInit /\ [][LangNext]_vars

\* TranslatorClient.translate alone, on every answer of the inference server
\* whose content is some opening pieces, a payload and some closing pieces
SeqsUpTo(S, n) == UNION {[1..k -> S] : k \in 0..n}
Payloads == {ObjT, ObjEmpty, ObjOther, "null", "hello"}
Contents ==
    { open \o body \o close :
        open \in SeqsUpTo({WS, FENCE, "json"}, MaxWrap),
        body \in SeqsUpTo(Payloads, MaxBody),
        close \in SeqsUpTo({WS, FENCE}, MaxWrap) }
ProbeAnswers ==
    {Answer(200, "OK", c) : c \in Contents}
        \cup {AnswerWithoutContent(200, "OK"), Answer(500, "Internal Server Error", <<>>)}

\* the fetch of translate resolves with answer
ProbeReceive ==
    /\ probe.stage = "idle"
    /\ \E answer \in ProbeAnswers :
            probe' = [probe EXCEPT !.stage = "received", !.answer = answer]
    /\ UNCHANGED <<contentVars, storeVars, nextJob, jmsg, jtext, phase, admitted,
                   limitChanged, workerVars, lastOp, lruRef, unresponsive, keyProbe,
                   isProcessing>>

\* the rest of translate: lines 73-100
ProbeTranslate ==
    /\ probe.stage = "received"
    /\ probe' = [probe EXCEPT !.stage = "returned", !.result = translate(probe.answer)]
    /\ UNCHANGED <<contentVars, storeVars, nextJob, jmsg, jtext, phase, admitted,
                   limitChanged, workerVars, lastOp, lruRef, unresponsive, keyProbe,
                   isProcessing>>

TranslateNext ==
    \/ ProbeReceive
    \/ ProbeTranslate

TranslateInit ==
    /\ stored = 0 /\ enabled = TRUE /\ targetLang = "Korean" /\ unresponsive = {}
    /\ Init

SpecTranslate == TranslateInit /\ [][TranslateNext]_vars

\* the cache key alone, on every two pairs of a language name and a text made
\* of a letter and the character of the separator
KeyStrings == SeqsUpTo({"a", ":"}, MaxKeyLen)

\* two requests reach line 89 with these settings.targetLang and message.text
KeyReceive ==
    /\ keyProbe.stage = "idle"
    /\ \E l1 \in KeyStrings, t1 \in KeyStrings, l2 \in KeyStrings, t2 \in KeyStrings :
            keyProbe' = [keyProbe EXCEPT !.stage = "received", !.lang1 = l1,
                                         !.text1 = t1, !.lang2 = l2, !.text2 = t2]
    /\ UNCHANGED <<contentVars, storeVars, nextJob, jmsg, jtext, phase, admitted,
                   limitChanged, workerVars, lastOp, lruRef, unresponsive, probe,
                   isProcessing>>

\* line 89 for both
KeyCompute ==
    /\ keyProbe.stage = "received"
    /\ keyProbe' = [keyProbe EXCEPT
            !.stage = "computed",
            !.key1 = cacheKey(Render(keyProbe.lang1), Render(keyProbe.text1)),
            !.key2 = cacheKey(Render(keyProbe.lang2), Render(keyProbe.text2))]
    /\ UNCHANGED <<contentVars, storeVars, nextJob, jmsg, jtext, phase, admitted,
                   limitChanged, workerVars, lastOp, lruRef, unresponsive, probe,
                   isProcessing>>

KeyNext == KeyReceive \/ KeyCompute

KeyInit ==
    /\ stored = 0 /\ enabled = TRUE /\ targetLang = "Korean" /\ unresponsive = {}
    /\ Init

SpecKey == KeyInit /\ [][KeyNext]_vars

\* the earlier content script alone: every response the runtime can hand to
\* the sendMessage callback is an input
SingleSlotSubmit(m, t) ==
    nextJob <= MaxJobs /\ SingleSlotTranslateMessage(m, t)

SingleSlotResponse(j, response) ==
    phase[j] = "sent" /\ SingleSlotCallback(j, response)

SingleSlotNext ==
    \/ \E m \in Msgs, t \in Texts : SingleSlotSubmit(m, t)
    \/ \E j \in Jobs, r \in Responses : SingleSlotResponse(j, r)

SingleSlotInit ==
    /\ stored = 0 /\ enabled = FALSE /\ targetLang = "Korean" /\ unresponsive = {}
    /\ Init

SpecSingleSlot == SingleSlotInit /\ [][SingleSlotNext]_vars

\* ------------------------------------------------------------------ claims

\* jobs whose task has been started and whose finally block has not run
InFlightJobs == {j \in Jobs : phase[j] \in {"sent", "detect", "fetch", "reply"}}
NoneCompleted == \A j \in Jobs : phase[j] # "done"
\* the number of jobs started in a step
Started == Len(admitted') - Len(admitted)
\* a job's finally block runs in a step
Completes(j) == phase[j] \in {"sent", "reply"} /\ phase'[j] = "done"
DisabledFailure == Failure("Translation is disabled")
NoNetworkAnswer(j) == resp[j].success /\ (resp[j].cached \/ resp[j].skipped)

\* C1 (as claimed): in every reachable state the in-flight counter is at most
\* the current concurrency limit.
C1_InFlightWithinLimit ==
    inFlightCount <= currentMaxConcurrent

\* C1 (amended): every step that admits a job leaves the in-flight counter at or
\* below the limit then in force, and the counter gets above the current limit
\* only by a step that lowers the limit.
C1_AdmissionWithinLimit ==
    [][ /\ Started > 0 => inFlightCount' <= currentMaxConcurrent'
        /\ (inFlightCount' > currentMaxConcurrent' /\ inFlightCount <= currentMaxConcurrent)
              => (currentMaxConcurrent' < currentMaxConcurrent /\ Started = 0) ]_vars

C1_Witness ==
    /\ limitChanged
    /\ Len(admitted) >= 2
    /\ inFlightCount = currentMaxConcurrent
    /\ translationQueue # <<>>

\* C2: jobs are admitted in the order in which they were enqueued: the k-th job
\* admitted is the k-th job enqueued, and the pending list holds the jobs
\* enqueued after them, in enqueue order.
C2_FifoAdmission ==
    /\ admitted = [i \in 1..Len(admitted) |-> i]
    /\ translationQueue = [i \in 1..Len(translationQueue) |-> Len(admitted) + i]
    /\ Len(admitted) + Len(translationQueue) = nextJob - 1

C2_Witness ==
    /\ limitChanged
    /\ Len(admitted) >= 2
    /\ Len(translationQueue) >= 2
    /\ \E j \in Jobs : phase[j] = "done"

\* C3 (as claimed): with configured limit N and M submitted jobs none of which
\* has completed, exactly min(N, M) are in flight and M - min(N, M) are pending,
\* whenever the jobs were submitted relative to the load of the stored limit.
C3_ExactlyMinInFlight ==
    (~loadPending /\ ~limitChanged /\ NoneCompleted)
        => LET N == OrDefault(stored)
               M == nextJob - 1
           IN  /\ inFlightCount = Min(N, M)
               /\ Len(translationQueue) = M - Min(N, M)

\* C4 (as claimed): whenever no handler is running, a non-empty pending list
\* means the in-flight count has reached the current limit.
C4_NoIdleCapacity ==
    translationQueue # <<>> => inFlightCount >= currentMaxConcurrent

\* C5: the completion of a job, failed or successful, lowers the in-flight
\* count by exactly one and re-runs admission: the pending jobs that now fit
\* under the limit are started, from the head of the pending list.
C5_FailureReleasesSlot ==
    [][\A j \in Jobs : Completes(j) =>
          LET k == Min(Len(translationQueue),
                       Max(0, currentMaxConcurrent - (inFlightCount - 1)))
          IN  /\ Started = k
              /\ inFlightCount' = inFlightCount - 1 + k
              /\ translationQueue' = SubSeq(translationQueue, k + 1, Len(translationQueue))
              /\ \A i \in 1..k : phase'[translationQueue[i]] = "sent"]_vars

C5_Witness ==
    /\ currentMaxConcurrent = 1
    /\ ~limitChanged
    /\ phase[1] = "done" /\ ~attr[jmsg[1]]
    /\ phase[2] = "sent"
    /\ phase[3] = "queued"
    /\ inFlightCount = 1

\* C6: a step that lowers the limit to or below the in-flight count cancels
\* nothing, returns nothing to the pending list and admits nothing; no step
\* takes an in-flight job back to the pending list; and no step admits a job
\* unless the in-flight count, after the completion the step may hold, is
\* strictly below the limit.
C6_LoweredLimitHolds ==
    [][ /\ (currentMaxConcurrent' < currentMaxConcurrent
              /\ currentMaxConcurrent' <= inFlightCount)
           => /\ phase' = phase
              /\ translationQueue' = translationQueue
              /\ inFlightCount' = inFlightCount
              /\ admitted' = admitted
        /\ \A j \in InFlightJobs : phase'[j] \notin {"new", "queued"}
        /\ LET c == IF \E j \in Jobs : Completes(j) THEN 1 ELSE 0
           IN  inFlightCount - c >= currentMaxConcurrent' => Started = 0 ]_vars

C6_Witness ==
    /\ limitChanged
    /\ inFlightCount > currentMaxConcurrent
    /\ translationQueue # <<>>
    /\ \E j \in Jobs : phase[j] = "done"

\* C7: when the worker looks up the cache for job j2 with translation enabled,
\* after exactly one job j1 of the same (text, targetLanguage) had its adapter
\* result stored and the key has not been evicted, j2 is answered with
\* cached:true and j1's text, and the adapter was invoked once for j1 and never
\* for j2.
C7_SecondIsCacheHit ==
    \A j1 \in Jobs, j2 \in Jobs :
        ( /\ sawStored[j2] = {j1}
          /\ ~resp[j1].skipped
          /\ resp[j2] # DisabledFailure
          /\ cacheKey(jlang[j2], jtext[j2]) \notin evictedKeys )
        => /\ phase[j2] \in {"reply", "done"}
           /\ resp[j2] = Success(resp[j1].result, TRUE, FALSE)
           /\ adapterCalls[j1] = 1
           /\ adapterCalls[j2] = 0

C7_Witness ==
    \E j1 \in Jobs, j2 \in Jobs :
        /\ sawStored[j2] = {j1}
        /\ ~resp[j1].skipped
        /\ phase[j1] = "done" /\ phase[j2] = "done"
        /\ resp[j2].cached
        /\ attr[jmsg[j2]]

\* C8 (as claimed): a job answered from the cache or by a language-detection
\* skip never took an admission slot.
C8_NoSlotWithoutNetwork ==
    \A j \in Jobs : NoNetworkAnswer(j) => j \notin Range(admitted)

\* C8 (amended): a job answered from the cache or by a skip never invokes the
\* adapter, but it is admitted like every job and holds its slot until the
\* content script has processed the answer.
C8_SlotButNoAdapter ==
    \A j \in Jobs : NoNetworkAnswer(j) =>
        /\ adapterCalls[j] = 0
        /\ phase[j] \in {"reply", "done"}
        /\ j \in Range(admitted)
        /\ phase[j] = "reply" =>
              (j \in InFlightJobs /\ inFlightCount = Cardinality(InFlightJobs))

C8_Witness ==
    \E j \in Jobs : phase[j] = "reply" /\ resp[j].cached /\ inFlightCount >= 1

\* C9: a request whose settings read finds translation disabled is answered
\* 'Translation is disabled' at once, whatever the cache holds, and never
\* causes a language detection or an adapter invocation.
C9_DisabledNoNetwork ==
    /\ [](\A j \in Jobs : resp[j] = DisabledFailure =>
            /\ adapterCalls[j] = 0
            /\ detectCalls[j] = 0
            /\ phase[j] \in {"reply", "done"})
    /\ [][\A j \in Jobs :
            (~enabled /\ phase[j] = "sent" /\ phase'[j] # "sent" /\ resp'[j] # LastError)
            => /\ resp'[j] = DisabledFailure
               /\ phase'[j] = "reply"
               /\ adapterCalls' = adapterCalls
               /\ detectCalls' = detectCalls
               /\ translationCache' = translationCache]_vars

C9_Witness ==
    \E j \in Jobs :
        /\ resp[j] = DisabledFailure
        /\ MapHas(translationCache, cacheKey(jlang[j], jtext[j]))

\* C10 (as claimed): while translation is disabled no job is enqueued.
C10_NoEnqueueWhileDisabled ==
    [][~enabled => nextJob' = nextJob]_vars

\* C10 (amended): a job answered 'Translation is disabled' was admitted like
\* every job and never reached the adapter; it holds its slot until the
\* content script processes the failure, which releases the slot and clears
\* the message's marker.
C10_DisabledHoldsSlotUntilFailure ==
    /\ [](\A j \in Jobs : resp[j] = DisabledFailure =>
            /\ j \in Range(admitted)
            /\ adapterCalls[j] = 0
            /\ phase[j] = "reply" =>
                  (j \in InFlightJobs /\ inFlightCount = Cardinality(InFlightJobs)))
    /\ [][\A j \in Jobs : (resp[j] = DisabledFailure /\ Completes(j)) =>
            /\ inFlightCount' = inFlightCount - 1 + Started
            /\ ~attr'[jmsg[j]]
            /\ phase'[j] = "done"]_vars

C10_Witness ==
    \E j \in Jobs : resp[j] = DisabledFailure /\ phase[j] = "done" /\ inFlightCount = 0

\* C11: a job for which language detection reliably reported the target
\* language (reached only after a cache miss) is answered success, skipped:true
\* with its own text and never invokes the adapter; the step that answers it
\* stores the text in the cache under the job's key; and the content script
\* resolves the answer, leaving the message marked.
C11_SkipPath ==
    /\ [](\A j \in Jobs : reportedTarget[j] =>
            /\ resp[j] = Success(jtext[j], FALSE, TRUE)
            /\ adapterCalls[j] = 0
            /\ detectCalls[j] = 1
            /\ phase[j] \in {"reply", "done"}
            /\ phase[j] = "done" => attr[jmsg[j]])
    /\ [][\A j \in Jobs : (phase[j] = "detect" /\ reportedTarget'[j]) =>
            LET key == cacheKey(jlang[j], jtext[j])
            IN  /\ MapHas(translationCache', key)
                /\ MapGet(translationCache', key) = jtext[j]
                /\ Len(translationCache') <= MAX_CACHE_SIZE]_vars

C11_Witness ==
    \E j \in Jobs :
        /\ reportedTarget[j]
        /\ phase[j] = "done"
        /\ resp[j].skipped
        /\ MapHas(translationCache, cacheKey(jlang[j], jtext[j]))

\* the key -> value pairs a cache holds
Entries(m) == Range(m)
Keys(m) == {e.k : e \in Range(m)}

\* C12: after every sequence of cacheGet and cacheSet calls, sets of keys
\* already present included, the cache holds at most MAX_CACHE_SIZE entries,
\* one per key.
C12_SizeBounded ==
    /\ Len(translationCache) <= MAX_CACHE_SIZE
    /\ Cardinality(Keys(translationCache)) = Len(translationCache)

C12_Witness ==
    /\ Len(translationCache) = MAX_CACHE_SIZE
    /\ lastOp.op = "set"
    /\ lastOp.hit
    /\ Len(lruRef) = MAX_CACHE_SIZE

\* C13 (as claimed): after every sequence of set and get operations the cache
\* holds exactly the entries a reference LRU of the same capacity holds.
C13_BehavesAsLru ==
    Entries(translationCache) = Entries(lruRef)

\* C14: a cacheGet that hits returns the stored value and moves the entry to
\* the end of the eviction order, with its value and the relative order of all
\* other entries unchanged; a cacheGet that misses leaves the cache unchanged.
C14_GetPromotes ==
    [][lastOp'.op = "get" =>
         LET k == lastOp'.k
         IN  IF MapHas(translationCache, k)
             THEN /\ lastOp'.hit
                  /\ lastOp'.ret = MapGet(translationCache, k)
                  /\ Len(translationCache') = Len(translationCache)
                  /\ translationCache'[Len(translationCache')]
                        = [k |-> k, v |-> MapGet(translationCache, k)]
                  /\ MapDelete(translationCache', k) = MapDelete(translationCache, k)
             ELSE /\ ~lastOp'.hit
                  /\ translationCache' = translationCache]_vars

C14_Witness ==
    /\ lastOp.op = "get"
    /\ lastOp.hit
    /\ Len(translationCache) = MAX_CACHE_SIZE
    /\ translationCache[Len(translationCache)] = [k |-> lastOp.k, v |-> lastOp.ret]

\* C15 (as claimed): immediately after cacheSet(k, v), k is last in eviction
\* order, whether or not k was present before the call.
C15_SetMakesMru ==
    [][lastOp'.op = "set" =>
         translationCache'[Len(translationCache')] = [k |-> lastOp'.k, v |-> lastOp'.v]]_vars

NoDuplicates(s) == \A i, k \in 1..Len(s) : s[i] = s[k] => i = k
\* the jobs a step admits
NewlyAdmitted == {admitted'[i] : i \in (Len(admitted) + 1)..Len(admitted')}

\* C16: every enqueued job is either on the pending list, once, or has been
\* admitted, once, never both; a step takes a job off the pending list exactly
\* when it admits it, and a job's request is sent exactly when it is admitted.
C16_AdmittedExactlyOnce ==
    /\ [](/\ NoDuplicates(admitted)
          /\ NoDuplicates(translationQueue)
          /\ Range(admitted) \cap Range(translationQueue) = {}
          /\ Range(admitted) \cup Range(translationQueue) = 1..(nextJob - 1)
          /\ \A j \in Jobs : phase[j] = "queued" <=> j \in Range(translationQueue)
          /\ \A j \in Jobs : phase[j] \in {"sent", "done"} <=> j \in Range(admitted))
    /\ [][/\ SubSeq(admitted', 1, Len(admitted)) = admitted
          /\ Range(translationQueue) \ Range(translationQueue') \subseteq NewlyAdmitted
          /\ NewlyAdmitted \subseteq Range(translationQueue) \cup {nextJob}
          /\ \A j \in Jobs :
                (phase'[j] = "sent" /\ phase[j] # "sent")
                    <=> (j \in NewlyAdmitted /\ phase[j] \in {"new", "queued"})]_vars

C16_Witness ==
    /\ Len(admitted) >= 3
    /\ Len(translationQueue) >= 1
    /\ inFlightCount < Len(admitted)
    /\ limitChanged
    /\ \E j \in Jobs : phase[j] = "done" /\ ~attr[jmsg[j]]

\* sendTranslationRequest resolves on this response (it rejects on every other)
Resolves(response) ==
    response.kind = "response" /\ response.success /\ response.result # ""
\* the state of job j in the terms Queued, Admitted, Succeeded, Failed
JobState(j) ==
    CASE phase[j] = "new" -> "None"
      [] phase[j] = "queued" -> "Queued"
      [] phase[j] = "done" -> IF Resolves(resp[j]) THEN "Succeeded" ELSE "Failed"
      [] OTHER -> "Admitted"
JobStep(a, b) ==
    \/ a = b
    \/ a = "None" /\ b \in {"Queued", "Admitted"}
    \/ a = "Queued" /\ b = "Admitted"
    \/ a = "Admitted" /\ b \in {"Succeeded", "Failed"}

\* C17: a job moves only Queued -> Admitted -> Succeeded or Failed (a job
\* enqueued while capacity is free is admitted by the same handler); a finished
\* job changes no more, is never on the pending list and is never sent again;
\* and a job causes at most one adapter invocation, made while it is admitted.
C17_JobStateMachine ==
    /\ [](\A j \in Jobs :
            /\ adapterCalls[j] <= 1
            /\ adapterCalls[j] = 1 => JobState(j) \in {"Admitted", "Succeeded", "Failed"}
            /\ JobState(j) \in {"Succeeded", "Failed"} => j \notin Range(translationQueue))
    /\ [][\A j \in Jobs :
            /\ JobStep(JobState(j), JobState(j)')
            /\ phase[j] \in {"detect", "fetch", "reply", "done"} => phase'[j] # "sent"
            /\ phase[j] = "done" =>
                  /\ resp'[j] = resp[j]
                  /\ adapterCalls'[j] = adapterCalls[j]
                  /\ detectCalls'[j] = detectCalls[j]]_vars

C17_Witness ==
    \E i \in Jobs, j \in Jobs :
        /\ JobState(i) = "Failed" /\ adapterCalls[i] = 1 /\ janswer[i].status = 500
        /\ JobState(j) = "Succeeded" /\ adapterCalls[j] = 1
        /\ jmsg[i] = jmsg[j]

\* C18: when every request sent is answered and the limit stays at least 1,
\* every enqueued job is admitted in the end and then completes, once: a
\* completed job stays completed; and once no more jobs are enqueued the
\* content script comes to rest with an empty pending list and nothing in
\* flight.
C18_EveryJobCompletes ==
    /\ [](currentMaxConcurrent >= 1)
    /\ \A j \in 1..LiveJobs : (phase[j] = "queued") ~> (phase[j] = "sent")
    /\ \A j \in 1..LiveJobs : (phase[j] \in {"queued", "sent"}) ~> (phase[j] = "done")
    /\ [][\A j \in Jobs : phase[j] = "done" => phase'[j] = "done"]_vars
    /\ (<>[][nextJob' = nextJob]_vars)
          => <>[](translationQueue = <<>> /\ inFlightCount = 0)

C18_Witness ==
    /\ nextJob > LiveJobs
    /\ \A j \in 1..LiveJobs : phase[j] = "done"
    /\ translationQueue = <<>> /\ inFlightCount = 0
    /\ currentMaxConcurrent = 1 /\ limitChanged
    /\ \E j \in Jobs : ~attr[jmsg[j]]

\* every slot of the current limit is held by a job that never completes
AllSlotsStalled ==
    Cardinality({j \in unresponsive : phase[j] = "sent"}) >= currentMaxConcurrent

\* C19 (as claimed): with a limit of at least 2, jobs that never complete and
\* all other requests answered, a pending job is admitted in the end unless
\* every slot is held by a job that never completes.
C19_StallsOnlyOwnSlot ==
    \A j \in Jobs : (phase[j] = "queued") ~> (phase[j] = "sent" \/ AllSlotsStalled)

\* with one job that never completes, every other pending job is admitted
C19_OneStalledSlot ==
    \A j \in Jobs :
        (unresponsive = {1} /\ phase[j] = "queued") ~> (phase[j] = "sent")

\* the adapter's call for job j was answered with a non-success HTTP status
HttpFailed(j) == janswer[j].status # 0 /\ ~janswer[j].ok

\* C20: when the server answers a job's request with a non-success status, the
\* job is answered success:false with an error made of the status code and the
\* status text ("API 500: Internal Server Error" for a 500), whatever the body
\* holds; nothing is cached by that step, and the content script takes the
\* answer as a failure.
C20_HttpErrorReported ==
    /\ [](\A j \in Jobs : HttpFailed(j) =>
            /\ adapterCalls[j] = 1
            /\ phase[j] \in {"reply", "done"}
            /\ resp[j].kind = "response" /\ ~resp[j].success /\ resp[j].result = ""
            /\ janswer[j].status = 500 => resp[j].error = "API 500: Internal Server Error"
            /\ janswer[j].status = 404 => resp[j].error = "API 404: Not Found"
            /\ janswer[j].status \in {404, 500}
            /\ ~Resolves(resp[j]))
    /\ [][\A j \in Jobs : (phase[j] = "fetch" /\ HttpFailed(j)') =>
            translationCache' = translationCache]_vars

C20_Witness ==
    \E j \in Jobs :
        /\ janswer[j].status = 500
        /\ phase[j] = "done"
        /\ resp[j].error = "API 500: Internal Server Error"
        /\ ~attr[jmsg[j]]

\* translate was handed a success answer whose trimmed content is not empty,
\* and has returned or thrown
ProbedContent ==
    /\ probe.stage = "returned"
    /\ probe.answer.ok /\ probe.answer.hasContent
    /\ Trim(probe.answer.content) # <<>>

\* C21: content that does not parse as JSON, or parses without a translation
\* field, makes translate return the fence-stripped content verbatim and never
\* throw; content that parses to an object with a translation field makes it
\* return that field's value.
C21_FieldOrRawContent ==
    ProbedContent =>
        LET stripped == StripFence(Trim(probe.answer.content))
        IN  /\ ~probe.result.threw
            /\ probe.result.value =
                    IF JsonParses(stripped) /\ TranslationField(stripped).present
                    THEN TranslationField(stripped).value
                    ELSE Render(stripped)

\* C21, the part that holds: translate never throws on non-empty content,
\* returns the fence-stripped content verbatim when it does not parse or has no
\* translation field, and returns the field's value when that is not empty.
C21_FallbackNeverThrows ==
    ProbedContent =>
        LET stripped == StripFence(Trim(probe.answer.content))
        IN  /\ ~probe.result.threw
            /\ ~(JsonParses(stripped) /\ TranslationField(stripped).present)
                    => probe.result.value = Render(stripped)
            /\ (JsonParses(stripped) /\ TranslationField(stripped).value # "")
                    => probe.result.value = TranslationField(stripped).value

\* C21, the example: a fenced json block around {"translation":"T"} makes
\* translate return T.
C21_FencedExample ==
    (/\ probe.stage = "returned"
     /\ probe.answer.ok /\ probe.answer.hasContent
     /\ probe.answer.content = <<FENCE, "json", WS, ObjT, WS, FENCE>>)
        => probe.result = [threw |-> FALSE, value |-> "T"]

\* the adapter's call for job j was answered with a success status and a first
\* choice whose content is absent, empty or whitespace only
EmptyContent(j) ==
    /\ janswer[j].ok
    /\ (~janswer[j].hasContent \/ Trim(janswer[j].content) = <<>>)

\* C22: when the server answers a job's request with a success status but the
\* first choice's content is empty, whitespace only or absent, translate throws
\* "Empty response from API": the job is answered success:false with that
\* error, and the content script takes the answer as a failure.
C22_EmptyResponseFails ==
    /\ [](\A j \in Jobs : EmptyContent(j) =>
            /\ adapterCalls[j] = 1
            /\ phase[j] \in {"reply", "done"}
            /\ resp[j] = Failure("Empty response from API")
            /\ ~Resolves(resp[j]))
    /\ [][\A j \in Jobs : (EmptyContent(j) /\ Completes(j)) =>
            ~attr'[jmsg[j]]]_vars

C22_Witness ==
    /\ \E j \in Jobs :
        /\ janswer[j] = Answer(200, "OK", <<WS>>)
        /\ phase[j] = "done"
        /\ resp[j].error = "Empty response from API"
    /\ \E j \in Jobs : janswer[j] = AnswerWithoutContent(200, "OK") /\ phase[j] = "done"

\* a step gives job j an answer that is not success:true
FailsIn(j) == resp'[j] # resp[j] /\ ~resp'[j].success
\* a step gives job j a success:true answer
SucceedsIn(j) == resp[j] = NoResp /\ resp'[j].success

MissedUnanswered(j) == phase[j] \in {"detect", "fetch"}
\* the handlers of jobs j and k look up the same key
SameKey(j, k) == jlang[j] = jlang[k] /\ jtext[j] = jtext[k]
\* a step stores the result of job j under a key the cache already holds
StoresAgain(j) ==
    /\ SucceedsIn(j) /\ ~resp'[j].cached
    /\ MapHas(translationCache, cacheKey(jlang[j], jtext[j]))

\* C24: while the handlers of two requests for the same (targetLanguage, text)
\* have both missed the cache and neither has answered, the adapter has been
\* invoked for at most one of them; and a step that stores a key the cache
\* already holds evicts no entry and leaves the size of the cache as it was.
C24_OneInvocationPerKey ==
    /\ [](\A j, k \in Jobs :
            (j # k /\ SameKey(j, k) /\ MissedUnanswered(j) /\ MissedUnanswered(k))
                => adapterCalls[j] + adapterCalls[k] <= 1)
    /\ [][\A j \in Jobs : StoresAgain(j) =>
            /\ Len(translationCache') = Len(translationCache)
            /\ Keys(translationCache') = Keys(translationCache)]_vars

\* C25: in every reachable state the in-flight counter is the number of jobs
\* whose task has been started and whose finally block has not run, and so is
\* never negative; the step that completes a job takes exactly one off the
\* counter (before the admissions of the same step are added), no other step
\* lowers it, and a completed job never completes again.
C25_CounterIsInFlight ==
    /\ [](/\ inFlightCount = Cardinality(InFlightJobs)
          /\ inFlightCount >= 0)
    /\ [][/\ \A j \in Jobs :
                /\ Completes(j) => inFlightCount' = inFlightCount - 1 + Started
                /\ phase[j] = "done" => phase'[j] = "done"
          /\ ~(\E j \in Jobs : Completes(j)) =>
                inFlightCount' = inFlightCount + Started]_vars

\* two jobs have completed, one of them in failure, and two are in flight
C25_Witness ==
    /\ Cardinality({j \in Jobs : phase[j] = "done"}) = 2
    /\ \E j \in Jobs : phase[j] = "done" /\ ~attr[jmsg[j]]
    /\ Cardinality(InFlightJobs) = 2
    /\ inFlightCount = 2

\* C26: in every reachable state the limit the admission loop compares with is
\* an integer of at least 1; it is 3 until the initial load or a change has
\* run; a change to a missing or zero value sets it to 3; an initial load that
\* finds no value leaves it as it was; and every other change or load sets it
\* to the value stored, which is at least 1.
C26_LimitPositive ==
    /\ [](/\ currentMaxConcurrent \in Nat
          /\ currentMaxConcurrent >= 1
          /\ (loadPending /\ ~limitChanged) => currentMaxConcurrent = 3)
    /\ [][/\ (stored' # stored /\ stored' = 0) => currentMaxConcurrent' = 3
          /\ (stored' # stored /\ stored' # 0) => currentMaxConcurrent' = stored'
          /\ (loadPending /\ ~loadPending') =>
                currentMaxConcurrent' = IF stored = 0 THEN currentMaxConcurrent
                                        ELSE stored]_vars

\* a change removed the stored value: the limit is 3, with three jobs in flight
C26_Witness ==
    /\ limitChanged /\ ~loadPending
    /\ stored = 0
    /\ currentMaxConcurrent = 3
    /\ inFlightCount = 3
    /\ \E j \in Jobs : phase[j] = "done"

\* the values a handler can store for text T and target language L: what
\* translate returns for an answer to that request, or T itself when a skip
\* is possible for L
ProducedFor(L, T) ==
    {translate(a).value : a \in {b \in ServerAnswers(T, L) : ~translate(b).threw}}
        \cup (IF getCodeForLangName(L) # "" THEN {T} ELSE {})

\* C27: whatever the changes of the target language while requests are in
\* flight, every cache entry sits under the key of a pair (L, T) and holds a
\* value produced for that pair, the adapter's result for translating T into L
\* or T itself after a skip; and a job answered from the cache gets a value
\* produced for the language its handler read and for its own text.
C27_EntriesMatchKeys ==
    /\ \A i \in 1..Len(translationCache) :
            \E L \in TargetLangs, T \in CacheTexts :
                /\ translationCache[i].k = cacheKey(L, T)
                /\ translationCache[i].v \in ProducedFor(L, T)
    /\ \A j \in Jobs :
            (resp[j].success /\ resp[j].cached) =>
                resp[j].result \in ProducedFor(jlang[j], jtext[j])

\* the target language changed after the handler of job 1 had read it; the
\* result of job 1 sits under the language its handler read, and job 2, with
\* the same text, missed the cache under the new language and stored its own
C27_Witness ==
    /\ phase[1] \in {"reply", "done"} /\ resp[1].success /\ adapterCalls[1] = 1
    /\ jlang[1] # targetLang
    /\ jlang[2] = targetLang /\ jtext[2] = jtext[1]
    /\ resp[2].success /\ ~resp[2].cached
    /\ Len(translationCache) = 2
    /\ MapHas(translationCache, cacheKey(jlang[1], jtext[1]))
    /\ MapHas(translationCache, cacheKey(jlang[2], jtext[2]))

\* the two pairs handed to cacheKey are the same pair
SamePair ==
    keyProbe.lang1 = keyProbe.lang2 /\ keyProbe.text1 = keyProbe.text2
\* neither language name holds the character of the separator
PlainLangs ==
    ":" \notin Range(keyProbe.lang1) \cup Range(keyProbe.lang2)

\* C28 (as claimed): two distinct pairs (targetLanguage, sourceText) never get
\* the same key, whatever the strings, language names and texts that contain
\* "::" included.
C28_KeyInjective ==
    (keyProbe.stage = "computed" /\ keyProbe.key1 = keyProbe.key2) => SamePair

\* C28 (amended): two distinct pairs never get the same key when neither
\* language name contains ':'; the texts may contain "::".
C28_KeyInjectiveForPlainLangs ==
    (keyProbe.stage = "computed" /\ PlainLangs /\ keyProbe.key1 = keyProbe.key2)
        => SamePair

\* two texts that contain "::" under one plain language name got different keys
C28_Witness ==
    /\ keyProbe.stage = "computed"
    /\ keyProbe.lang1 = <<"a">> /\ keyProbe.lang2 = <<"a">>
    /\ keyProbe.text1 = <<":", ":">> /\ keyProbe.text2 = <<>>
    /\ keyProbe.key1 = "a::::" /\ keyProbe.key2 = "a::"

\* the jobs of container m that are pending or in flight
ActiveJobs(m) == {j \in Jobs : jmsg[j] = m /\ phase[j] \notin {"new", "done"}}
\* job j has finished and its promise resolved
Succeeded(j) == phase[j] = "done" /\ Resolves(resp[j])

\* C29: a container has at most one job pending or in flight, and carries the
\* marker while it has one; a container whose job succeeded keeps the marker
\* and gets no further job; and the marker is removed only by the step that
\* completes a job of the container in failure, after which the container may
\* be submitted again.
C29_ProcessedOnce ==
    /\ [](/\ \A m \in Msgs : Cardinality(ActiveJobs(m)) <= 1
          /\ \A m \in Msgs : ActiveJobs(m) # {} => attr[m]
          /\ \A j \in Jobs : Succeeded(j) =>
                /\ attr[jmsg[j]]
                /\ \A k \in Jobs : jmsg[k] = jmsg[j] => k <= j)
    /\ [][/\ \A m \in Msgs : (attr[m] /\ ~attr'[m]) =>
                \E j \in Jobs : jmsg[j] = m /\ Completes(j) /\ ~Resolves(resp[j])
          /\ \A j \in Jobs : (Completes(j) /\ ~Resolves(resp[j])) => ~attr'[jmsg[j]]
          /\ \A j \in Jobs : (phase[j] = "new" /\ phase'[j] # "new") =>
                ~attr[jmsg'[j]] /\ attr'[jmsg'[j]]]_vars

\* the first job of container 1 failed, the container was observed again and
\* its second job succeeded
C29_Witness ==
    /\ jmsg[1] = 1 /\ phase[1] = "done" /\ ~Resolves(resp[1])
    /\ jmsg[2] = 1 /\ Succeeded(2)
    /\ attr[1]

\* the tasks started and not finished
Running == {j \in Jobs : phase[j] = "sent"}

\* C30: in the single-slot queue at most one task is running; isProcessing is
\* true exactly while a task has been started and has not finished; the step
\* in which a task finishes starts the head of the queue, if there is one, and
\* nothing else; and the queue is never non-empty with isProcessing false
\* between two steps.
C30_SingleSlot ==
    /\ [](/\ Cardinality(Running) <= 1
          /\ isProcessing <=> Running # {}
          /\ translationQueue # <<>> => isProcessing)
    /\ [][\A j \in Jobs : Completes(j) =>
            IF translationQueue = <<>>
            THEN ~isProcessing' /\ Running' = {}
            ELSE /\ Running' = {Head(translationQueue)}
                 /\ translationQueue' = Tail(translationQueue)
                 /\ isProcessing']_vars

\* the first task failed, its finally started the second, and the third waits
C30_Witness ==
    /\ phase[1] = "done" /\ ~attr[jmsg[1]]
    /\ Running = {2}
    /\ translationQueue = <<3>>
    /\ isProcessing

====
